---- MODULE Spec2Model ----
(***************************************************************************)
(* Admin-gated CRUD routes over the Members (User) and Projects            *)
(* collections: src/team.js (members) and src/unnamed/part_000 (projects), *)
(* with the Project schema of src/unnamed/part_001.                        *)
(*                                                                         *)
(* A request occupies a slot from its arrival to its response.  A handler  *)
(* is an async function: the code between two awaits runs without          *)
(* interruption, and each awaited store call is one atomic store step, so  *)
(* one action is one store call together with the handler code that runs   *)
(* on its result, up to the next await.  Requests in different slots       *)
(* interleave at these steps.                                              *)
(*                                                                         *)
(* A request body is a function whose DOMAIN is the set of supplied        *)
(* fields; an omitted field (undefined in the handler) is not in the       *)
(* DOMAIN.  A document is a record; <<>> stands for null.                  *)
(* Left out: password, createdAt/updatedAt (no handler reads them; ids     *)
(* are allocated in creation order, so createdAt order is id order).       *)
(***************************************************************************)
EXTENDS Naturals, Sequences, FiniteSets, TLC

VARIABLES members, projects, nextUser, nextProject, req, started, serial, supplied, created

vars == <<members, projects, nextUser, nextProject, req, started, serial, supplied, created>>

(* Read by no handler: how requests are admitted (serial: one at a time),  *)
(* the teamMembers each Project was created with, and the Members created  *)
(* since the start.                                                        *)
history == <<serial, supplied, created>>

store == <<members, projects, nextUser, nextProject>>

(* Bounds of the model. *)
MaxInFlight == 2
MaxRequests == 3
MaxSeqRequests == 2
MaxUsers == 2
MaxProjects == 1
MaxTeam == 2
MaxSupplied == 3

Slots == 1..MaxInFlight
UserIds == 1..MaxUsers
ProjectIds == 1..MaxProjects

(* The user-role header: "undefined" is the absent header. *)
Roles == {"admin", "contributor", "undefined"}

NoDoc == <<>>

Has(b, f) == f \in DOMAIN b

(* JS truthiness of a string field of the body: present and not "". *)
Truthy(b, f) == Has(b, f) /\ b[f] # ""

Opt(f, vals) == {<<>>} \cup {f :> v : v \in vals}

RECURSIVE SeqsUpTo(_, _)
SeqsUpTo(S, n) ==
  IF n = 0 THEN {<<>>}
  ELSE LET shorter == SeqsUpTo(S, n - 1)
       IN shorter \cup {Append(s, x) : s \in {t \in shorter : Len(t) = n - 1}, x \in S}

Range(s) == {s[i] : i \in DOMAIN s}

TeamLists == SeqsUpTo(UserIds, MaxTeam)

(* Request bodies of the interleaved specification. *)
MemberBodies ==
  {a @@ b : a \in Opt("name", {"n1"}), b \in Opt("email", {"e1", "e2"})}

ProjectBodies ==
  {a @@ b @@ c : a \in Opt("projectName", {"p1"}),
                 b \in {[githubRepo |-> "r1"]},
                 c \in Opt("teamMembers", TeamLists)}

(* Request bodies of the one-request-at-a-time specification: every field  *)
(* omitted, falsy or truthy, at most MaxSupplied fields supplied at once.   *)
SeqMemberBodies ==
  {x \in {a @@ b @@ c @@ d @@ e @@ f :
            a \in Opt("name", {"", "n2"}),
            b \in Opt("email", {"", "e1", "e2"}),
            c \in Opt("role", {"", "admin"}),
            d \in Opt("githubUsername", {"", "g1"}),
            e \in Opt("assignedProjects", {"[]", "[p1]"}),
            f \in Opt("status", {"", "inactive"})} :
     Cardinality(DOMAIN x) <= MaxSupplied}

SeqProjectBodies ==
  {x \in {a @@ b @@ c @@ d @@ e :
            a \in Opt("projectName", {"", "p1", "p2"}),
            b \in Opt("description", {"", "d1"}),
            c \in Opt("githubRepo", {"", "r1"}),
            d \in Opt("teamMembers", TeamLists),
            e \in Opt("status", {"", "completed", "bogus"})} :
     Cardinality(DOMAIN x) <= MaxSupplied}

Idle ==
  [op |-> "idle", pc |-> "idle", role |-> "", id |-> 0, body |-> <<>>,
   doc |-> NoDoc, orig |-> NoDoc, valid |-> {}, status |-> 0, out |-> <<>>,
   calls |-> <<>>]

Call(fn, arg) == [fn |-> fn, arg |-> arg]

Arrive(op, role) == [Idle EXCEPT !.op = op, !.role = role, !.pc = "run"]

Logged(rq, fn, arg) == [rq EXCEPT !.calls = Append(@, Call(fn, arg))]

(* res.status(code).json(out): the handler returns, its locals are gone. *)
Respond(rq, code, out) ==
  [rq EXCEPT !.pc = "done", !.status = code, !.out = out,
             !.doc = NoDoc, !.orig = NoDoc, !.valid = {}]

(* Mutant: any role header that is present passes the guard. *)
AuthorizePresent(role) == role # "undefined"

(* if (userRole !== 'admin') return res.status(403) *)
Authorize(role) == role = "admin"

Forbidden(op, role) == Respond(Arrive(op, role), 403, <<>>)

(* ------------------------------ store ---------------------------------- *)

(* Mutant: the lookup filters on the wrong field. *)
FindOneByName(ms, key) ==
  IF \E i \in DOMAIN ms : ms[i].name = key
  THEN CHOOSE i \in DOMAIN ms : ms[i].name = key
  ELSE 0

(* User.findOne({ email }): a stored Member with that email, or null (0).  *)
(* An undefined key matches a document without the field; every stored     *)
(* Member has an email.                                                    *)
FindOneByEmail(ms, key) ==
  IF \E i \in DOMAIN ms : ms[i].email = key
  THEN CHOOSE i \in DOMAIN ms : ms[i].email = key
  ELSE 0

(* The User schema's required fields. *)
UserSchemaValid(doc) ==
  /\ Has(doc, "name") /\ doc.name # ""
  /\ Has(doc, "email") /\ doc.email # ""

(* doc.save() of a loaded document writes the paths the handler changed. *)
SaveModified(stored, orig, doc) ==
  [f \in DOMAIN stored |-> IF doc[f] # orig[f] THEN doc[f] ELSE stored[f]]

Insert(coll, id, doc) == [i \in DOMAIN coll \cup {id} |-> IF i = id THEN doc ELSE coll[i]]

Remove(coll, id) == [i \in DOMAIN coll \ {id} |-> coll[i]]

(* ids in descending creation order: sort({ createdAt: -1 }) *)
RECURSIVE Descending(_)
Descending(S) ==
  IF S = {} THEN <<>>
  ELSE LET m == CHOOSE x \in S : \A y \in S : y <= x
       IN <<m>> \o Descending(S \ {m})

(* ------------------------------ members -------------------------------- *)

EmailKey(body) == IF Has(body, "email") THEN body.email ELSE "undefined"

(* new User({ name, email, role: role || 'contributor', ... }) *)
NewMember(body) ==
  (IF Has(body, "name") THEN [name |-> body.name] ELSE <<>>) @@
  (IF Has(body, "email") THEN [email |-> body.email] ELSE <<>>) @@
  [role |-> IF Truthy(body, "role") THEN body.role ELSE "contributor",
   githubUsername |-> IF Truthy(body, "githubUsername") THEN body.githubUsername ELSE "",
   assignedProjects |-> IF Has(body, "assignedProjects") THEN body.assignedProjects ELSE "[]",
   status |-> IF Truthy(body, "status") THEN body.status ELSE "active"]

(* if (email !== member.email) *)
EmailDiffers(body, member) == ~Has(body, "email") \/ body.email # member.email

(* Mutant: githubUsername assigned on truthiness, like name. *)
AssignMemberFieldsTruthyGithub(member, body) ==
  [name |-> IF Truthy(body, "name") THEN body.name ELSE member.name,
   email |-> IF Truthy(body, "email") THEN body.email ELSE member.email,
   role |-> IF Truthy(body, "role") THEN body.role ELSE member.role,
   githubUsername |-> IF Truthy(body, "githubUsername") THEN body.githubUsername
                      ELSE member.githubUsername,
   assignedProjects |-> IF Has(body, "assignedProjects") THEN body.assignedProjects
                        ELSE member.assignedProjects,
   status |-> IF Truthy(body, "status") THEN body.status ELSE member.status]

(* Mutant: the create handler's default for role, used on update. *)
AssignMemberFieldsDefaultRole(member, body) ==
  [name |-> IF Truthy(body, "name") THEN body.name ELSE member.name,
   email |-> IF Truthy(body, "email") THEN body.email ELSE member.email,
   role |-> IF Truthy(body, "role") THEN body.role ELSE "contributor",
   githubUsername |-> IF Has(body, "githubUsername") THEN body.githubUsername
                      ELSE member.githubUsername,
   assignedProjects |-> IF Has(body, "assignedProjects") THEN body.assignedProjects
                        ELSE member.assignedProjects,
   status |-> IF Truthy(body, "status") THEN body.status ELSE member.status]

(* member.name = name || member.name; ... *)
AssignMemberFields(member, body) ==
  [name |-> IF Truthy(body, "name") THEN body.name ELSE member.name,
   email |-> IF Truthy(body, "email") THEN body.email ELSE member.email,
   role |-> IF Truthy(body, "role") THEN body.role ELSE member.role,
   githubUsername |-> IF Has(body, "githubUsername") THEN body.githubUsername
                      ELSE member.githubUsername,
   assignedProjects |-> IF Has(body, "assignedProjects") THEN body.assignedProjects
                        ELSE member.assignedProjects,
   status |-> IF Truthy(body, "status") THEN body.status ELSE member.status]

(* A slot is free before its first request and after a response. *)
Free(r) == req[r].pc \in {"idle", "done"}

RequestLimit == IF serial THEN MaxSeqRequests ELSE MaxRequests

(* A request takes the lowest free slot; admitted one at a time, it waits  *)
(* for the response to the last.                                           *)
CanArrive(r) ==
  /\ Free(r)
  /\ \A s \in Slots : s < r => ~Free(s)
  /\ started < RequestLimit
  /\ serial => \A s \in Slots : Free(s)

MemberInputs == IF serial THEN SeqMemberBodies ELSE MemberBodies

ProjectInputs == IF serial THEN SeqProjectBodies ELSE ProjectBodies

Running(r, op, pc) == req[r].op = op /\ req[r].pc = pc

(* GET /members *)
ListMembers(r, role) ==
  /\ CanArrive(r)
  /\ started' = started + 1
  /\ req' = [req EXCEPT ![r] =
       IF ~Authorize(role) THEN Forbidden("listMembers", role)
       ELSE Respond(Logged(Arrive("listMembers", role), "User.find", ""),
                    200, Descending(DOMAIN members))]
  /\ UNCHANGED <<store, history>>

(* POST /members: guard, User.findOne({ email }), new User(...) *)
CreateMember(r, role, body) ==
  /\ CanArrive(r)
  /\ nextUser + Cardinality({s \in Slots : Running(s, "createMember", "save")}) <= MaxUsers
  /\ started' = started + 1
  /\ req' = [req EXCEPT ![r] =
       IF ~Authorize(role) THEN Forbidden("createMember", role)
       ELSE LET rq == Logged([Arrive("createMember", role) EXCEPT !.body = body],
                             "User.findOne", EmailKey(body))
            IN IF FindOneByEmail(members, EmailKey(body)) # 0
               THEN Respond(rq, 400, <<>>)
               ELSE [rq EXCEPT !.pc = "save", !.doc = NewMember(body)]]
  /\ UNCHANGED <<store, history>>

(* await newMember.save(); res.json(...) *)
CreateMemberSave(r) ==
  /\ Running(r, "createMember", "save")
  /\ IF UserSchemaValid(req[r].doc)
     THEN /\ members' = Insert(members, nextUser, req[r].doc)
          /\ nextUser' = nextUser + 1
          /\ created' = created \cup {nextUser}
          /\ req' = [req EXCEPT ![r] =
               Respond([Logged(@, "User.save", "") EXCEPT !.id = nextUser], 200, <<>>)]
     ELSE /\ req' = [req EXCEPT ![r] = Respond(@, 500, <<>>)]
          /\ UNCHANGED <<members, nextUser, created>>
  /\ UNCHANGED <<projects, nextProject, started, serial, supplied>>

(* GET /members/:id *)
GetMember(r, role, id) ==
  /\ CanArrive(r)
  /\ started' = started + 1
  /\ req' = [req EXCEPT ![r] =
       IF ~Authorize(role) THEN Forbidden("getMember", role)
       ELSE LET rq == Logged([Arrive("getMember", role) EXCEPT !.id = id],
                             "User.findById", "")
            IN IF id \notin DOMAIN members THEN Respond(rq, 404, <<>>)
               ELSE Respond([rq EXCEPT !.doc = members[id]], 200, <<>>)]
  /\ UNCHANGED <<store, history>>

(* PUT /members/:id: guard, User.findById(id), the email comparison *)
UpdateMember(r, role, id, body) ==
  /\ CanArrive(r)
  /\ started' = started + 1
  /\ req' = [req EXCEPT ![r] =
       IF ~Authorize(role) THEN Forbidden("updateMember", role)
       ELSE LET rq == Logged([Arrive("updateMember", role) EXCEPT !.id = id, !.body = body],
                             "User.findById", "")
            IN IF id \notin DOMAIN members THEN Respond(rq, 404, <<>>)
               ELSE IF EmailDiffers(body, members[id])
                    THEN [rq EXCEPT !.pc = "findOne", !.orig = members[id], !.doc = members[id]]
                    ELSE [rq EXCEPT !.pc = "save", !.orig = members[id],
                                    !.doc = AssignMemberFields(members[id], body)]]
  /\ UNCHANGED <<store, history>>

(* const existingUser = await User.findOne({ email }) and what follows it *)
UpdateMemberFindOne(r) ==
  /\ Running(r, "updateMember", "findOne")
  /\ req' = [req EXCEPT ![r] =
       LET rq == Logged(@, "User.findOne", EmailKey(@.body))
       IN IF FindOneByEmail(members, EmailKey(rq.body)) # 0
          THEN Respond(rq, 400, <<>>)
          ELSE [rq EXCEPT !.pc = "save", !.doc = AssignMemberFields(rq.doc, rq.body)]]
  /\ UNCHANGED <<store, started, history>>

(* await member.save(); res.json(...) *)
UpdateMemberSave(r) ==
  /\ Running(r, "updateMember", "save")
  /\ LET rq == Logged(req[r], "User.save", "")
     IN IF req[r].id \in DOMAIN members
        THEN /\ members' = [members EXCEPT ![req[r].id] =
                              SaveModified(@, req[r].orig, req[r].doc)]
             /\ req' = [req EXCEPT ![r] = Respond(rq, 200, <<>>)]
        ELSE /\ req' = [req EXCEPT ![r] = Respond(rq, 500, <<>>)]
             /\ UNCHANGED members
  /\ UNCHANGED <<projects, nextUser, nextProject, started, history>>

(* DELETE /members/:id: guard, User.findById(id) *)
DeleteMember(r, role, id) ==
  /\ CanArrive(r)
  /\ started' = started + 1
  /\ req' = [req EXCEPT ![r] =
       IF ~Authorize(role) THEN Forbidden("deleteMember", role)
       ELSE LET rq == Logged([Arrive("deleteMember", role) EXCEPT !.id = id],
                             "User.findById", "")
            IN IF id \notin DOMAIN members THEN Respond(rq, 404, <<>>)
               ELSE [rq EXCEPT !.pc = "delete"]]
  /\ UNCHANGED <<store, history>>

(* await User.findByIdAndDelete(id); res.json(...) *)
DeleteMemberRemove(r) ==
  /\ Running(r, "deleteMember", "delete")
  /\ members' = Remove(members, req[r].id)
  /\ req' = [req EXCEPT ![r] = Respond(Logged(@, "User.findByIdAndDelete", ""), 200, <<>>)]
  /\ UNCHANGED <<projects, nextUser, nextProject, started, history>>

(* ------------------------------ projects ------------------------------- *)

StatusEnum == {"active", "inactive", "completed"}

(* The Project schema: required projectName and githubRepo, status enum. *)
ProjectSchemaValid(doc) ==
  /\ Has(doc, "projectName") /\ doc.projectName # ""
  /\ Has(doc, "githubRepo") /\ doc.githubRepo # ""
  /\ doc.status \in StatusEnum

(* if (!projectName || !githubRepo) *)
RequiredMissing(body) == ~Truthy(body, "projectName") \/ ~Truthy(body, "githubRepo")

(* if (teamMembers && teamMembers.length > 0) *)
TeamGiven(body) == Has(body, "teamMembers") /\ Len(body.teamMembers) > 0

(* User.find({ _id: { $in: teamMembers } }): the stored Members among them *)
FindUsersIn(ms, tm) == Range(tm) \cap DOMAIN ms

(* Mutant: the count comparison only rejects too many matches. *)
CountMismatchGreater(valid, tm) == Cardinality(valid) > Len(tm)

(* validMembers.length !== teamMembers.length *)
CountMismatch(valid, tm) == Cardinality(valid) # Len(tm)

(* new Project({ projectName, description: description || '', ... }) *)
NewProject(body) ==
  [projectName |-> body.projectName,
   description |-> IF Truthy(body, "description") THEN body.description ELSE "",
   githubRepo |-> body.githubRepo,
   teamMembers |-> IF Has(body, "teamMembers") THEN body.teamMembers ELSE <<>>,
   status |-> IF Truthy(body, "status") THEN body.status ELSE "active"]

(* if (projectName) project.projectName = projectName; ... *)
AssignProjectFields(project, body) ==
  [projectName |-> IF Truthy(body, "projectName") THEN body.projectName
                   ELSE project.projectName,
   description |-> IF Has(body, "description") THEN body.description
                   ELSE project.description,
   githubRepo |-> IF Truthy(body, "githubRepo") THEN body.githubRepo
                  ELSE project.githubRepo,
   teamMembers |-> IF Has(body, "teamMembers") THEN body.teamMembers
                   ELSE project.teamMembers,
   status |-> IF Truthy(body, "status") THEN body.status ELSE project.status]

(* Mutant: the summary selects name where email belongs. *)
SummaryWrongField(ms, i) ==
  [id |-> i, name |-> ms[i].name, email |-> ms[i].name,
   githubUsername |-> ms[i].githubUsername]

(* The fields populate selects: 'name email githubUsername' (and _id). *)
Summary(ms, i) ==
  [id |-> i, name |-> ms[i].name, email |-> ms[i].email,
   githubUsername |-> ms[i].githubUsername]

(* populate('teamMembers', 'name email githubUsername'): each id replaced  *)
(* by the Member's summary, an id that finds no Member dropped.            *)
RECURSIVE Populate(_, _)
Populate(ms, tm) ==
  IF tm = <<>> THEN <<>>
  ELSE IF Head(tm) \in DOMAIN ms
       THEN <<Summary(ms, Head(tm))>> \o Populate(ms, Tail(tm))
       ELSE Populate(ms, Tail(tm))

(* populate of a list of projects: one query for all of them *)
PopulateAll(ms, ps) ==
  LET ids == Descending(DOMAIN ps)
  IN [k \in DOMAIN ids |-> [id |-> ids[k], teamMembers |-> Populate(ms, ps[ids[k]].teamMembers)]]

NeedsPopulate(doc) == Len(doc.teamMembers) > 0

(* GET /projects: guard, Project.find() *)
ListProjects(r, role) ==
  /\ CanArrive(r)
  /\ started' = started + 1
  /\ req' = [req EXCEPT ![r] =
       IF ~Authorize(role) THEN Forbidden("listProjects", role)
       ELSE LET rq == Logged(Arrive("listProjects", role), "Project.find", "")
            IN IF \E i \in DOMAIN projects : NeedsPopulate(projects[i])
               THEN [rq EXCEPT !.pc = "populate", !.doc = projects]
               ELSE Respond(rq, 200, PopulateAll(members, projects))]
  /\ UNCHANGED <<store, history>>

(* .populate('teamMembers', ...) of the list; res.json(...) *)
ListProjectsPopulate(r) ==
  /\ Running(r, "listProjects", "populate")
  /\ req' = [req EXCEPT ![r] =
       Respond(Logged(@, "User.find", ""), 200, PopulateAll(members, @.doc))]
  /\ UNCHANGED <<store, started, history>>

(* POST /projects: guard, required fields, User.find({ _id: { $in } }) *)
CreateProject(r, role, body) ==
  /\ CanArrive(r)
  /\ nextProject + Cardinality({s \in Slots : Running(s, "createProject", "save")})
       <= MaxProjects
  /\ started' = started + 1
  /\ req' = [req EXCEPT ![r] =
       IF ~Authorize(role) THEN Forbidden("createProject", role)
       ELSE LET rq == [Arrive("createProject", role) EXCEPT !.body = body]
            IN IF RequiredMissing(body) THEN Respond(rq, 400, <<>>)
               ELSE IF TeamGiven(body)
                    THEN LET valid == FindUsersIn(members, body.teamMembers)
                             rv == [Logged(rq, "User.find", "") EXCEPT !.valid = valid]
                         IN IF CountMismatch(valid, body.teamMembers)
                            THEN Respond(rv, 400, <<>>)
                            ELSE [rv EXCEPT !.pc = "save", !.doc = NewProject(body)]
                    ELSE [rq EXCEPT !.pc = "save", !.doc = NewProject(body)]]
  /\ UNCHANGED <<store, history>>

(* await newProject.save() *)
CreateProjectSave(r) ==
  /\ Running(r, "createProject", "save")
  /\ IF ProjectSchemaValid(req[r].doc)
     THEN /\ projects' = Insert(projects, nextProject, req[r].doc)
          /\ nextProject' = nextProject + 1
          /\ supplied' = Insert(supplied, nextProject, req[r].doc.teamMembers)
          /\ req' = [req EXCEPT ![r] =
               LET rq == [Logged(@, "Project.save", "") EXCEPT !.id = nextProject]
               IN IF NeedsPopulate(rq.doc) THEN [rq EXCEPT !.pc = "populate"]
                  ELSE Respond(rq, 200, <<>>)]
     ELSE /\ req' = [req EXCEPT ![r] = Respond(@, 500, <<>>)]
          /\ UNCHANGED <<projects, nextProject, supplied>>
  /\ UNCHANGED <<members, nextUser, started, serial, created>>

(* await newProject.populate('teamMembers', ...); res.json(...) *)
CreateProjectPopulate(r) ==
  /\ Running(r, "createProject", "populate")
  /\ req' = [req EXCEPT ![r] =
       Respond(Logged(@, "User.find", ""), 200, Populate(members, @.doc.teamMembers))]
  /\ UNCHANGED <<store, started, history>>

(* GET /projects/:id: guard, Project.findById(id) *)
GetProject(r, role, id) ==
  /\ CanArrive(r)
  /\ started' = started + 1
  /\ req' = [req EXCEPT ![r] =
       IF ~Authorize(role) THEN Forbidden("getProject", role)
       ELSE LET rq == Logged([Arrive("getProject", role) EXCEPT !.id = id],
                             "Project.findById", "")
            IN IF id \notin DOMAIN projects THEN Respond(rq, 404, <<>>)
               ELSE IF NeedsPopulate(projects[id])
                    THEN [rq EXCEPT !.pc = "populate", !.doc = projects[id]]
                    ELSE Respond([rq EXCEPT !.doc = projects[id]], 200, <<>>)]
  /\ UNCHANGED <<store, history>>

(* .populate('teamMembers', ...) of the project; res.json(...) *)
GetProjectPopulate(r) ==
  /\ Running(r, "getProject", "populate")
  /\ req' = [req EXCEPT ![r] =
       Respond(Logged(@, "User.find", ""), 200, Populate(members, @.doc.teamMembers))]
  /\ UNCHANGED <<store, started, history>>

(* PUT /projects/:id: guard, Project.findById(id) *)
UpdateProject(r, role, id, body) ==
  /\ CanArrive(r)
  /\ started' = started + 1
  /\ req' = [req EXCEPT ![r] =
       IF ~Authorize(role) THEN Forbidden("updateProject", role)
       ELSE LET rq == Logged([Arrive("updateProject", role) EXCEPT !.id = id, !.body = body],
                             "Project.findById", "")
            IN IF id \notin DOMAIN projects THEN Respond(rq, 404, <<>>)
               ELSE IF TeamGiven(body)
                    THEN [rq EXCEPT !.pc = "verify", !.orig = projects[id],
                                    !.doc = projects[id]]
                    ELSE [rq EXCEPT !.pc = "save", !.orig = projects[id],
                                    !.doc = AssignProjectFields(projects[id], body)]]
  /\ UNCHANGED <<store, history>>

(* Mutant: the fields are assigned and saved before the members are verified. *)
UpdateProjectVerifyLate(r) ==
  /\ Running(r, "updateProject", "verify")
  /\ projects' = IF req[r].id \in DOMAIN projects
                 THEN [projects EXCEPT ![req[r].id] = AssignProjectFields(@, req[r].body)]
                 ELSE projects
  /\ req' = [req EXCEPT ![r] =
       LET valid == FindUsersIn(members, @.body.teamMembers)
           rv == [Logged(@, "User.find", "") EXCEPT !.valid = valid]
       IN IF CountMismatch(valid, rv.body.teamMembers)
          THEN Respond(rv, 400, <<>>)
          ELSE [rv EXCEPT !.pc = "save", !.doc = AssignProjectFields(rv.doc, rv.body)]]
  /\ UNCHANGED <<members, nextUser, nextProject, started, history>>

(* const validMembers = await User.find({ _id: { $in: teamMembers } }) *)
UpdateProjectVerify(r) ==
  /\ Running(r, "updateProject", "verify")
  /\ req' = [req EXCEPT ![r] =
       LET valid == FindUsersIn(members, @.body.teamMembers)
           rv == [Logged(@, "User.find", "") EXCEPT !.valid = valid]
       IN IF CountMismatch(valid, rv.body.teamMembers)
          THEN Respond(rv, 400, <<>>)
          ELSE [rv EXCEPT !.pc = "save", !.doc = AssignProjectFields(rv.doc, rv.body)]]
  /\ UNCHANGED <<store, started, history>>

(* await project.save() *)
UpdateProjectSave(r) ==
  /\ Running(r, "updateProject", "save")
  /\ IF ProjectSchemaValid(req[r].doc)
     THEN LET rq == Logged(req[r], "Project.save", "")
          IN IF req[r].id \in DOMAIN projects
             THEN /\ projects' = [projects EXCEPT ![req[r].id] =
                                    SaveModified(@, req[r].orig, req[r].doc)]
                  /\ req' = [req EXCEPT ![r] =
                       IF NeedsPopulate(rq.doc) THEN [rq EXCEPT !.pc = "populate"]
                       ELSE Respond(rq, 200, <<>>)]
             ELSE /\ req' = [req EXCEPT ![r] = Respond(rq, 500, <<>>)]
                  /\ UNCHANGED projects
     ELSE /\ req' = [req EXCEPT ![r] = Respond(@, 500, <<>>)]
          /\ UNCHANGED projects
  /\ UNCHANGED <<members, nextUser, nextProject, started, history>>

(* await project.populate('teamMembers', ...); res.json(...) *)
UpdateProjectPopulate(r) ==
  /\ Running(r, "updateProject", "populate")
  /\ req' = [req EXCEPT ![r] =
       Respond(Logged(@, "User.find", ""), 200, Populate(members, @.doc.teamMembers))]
  /\ UNCHANGED <<store, started, history>>

(* DELETE /projects/:id: guard, Project.findById(id) *)
DeleteProject(r, role, id) ==
  /\ CanArrive(r)
  /\ started' = started + 1
  /\ req' = [req EXCEPT ![r] =
       IF ~Authorize(role) THEN Forbidden("deleteProject", role)
       ELSE LET rq == Logged([Arrive("deleteProject", role) EXCEPT !.id = id],
                             "Project.findById", "")
            IN IF id \notin DOMAIN projects THEN Respond(rq, 404, <<>>)
               ELSE [rq EXCEPT !.pc = "delete"]]
  /\ UNCHANGED <<store, history>>

(* await Project.findByIdAndDelete(id); res.json(...) *)
DeleteProjectRemove(r) ==
  /\ Running(r, "deleteProject", "delete")
  /\ projects' = Remove(projects, req[r].id)
  /\ req' = [req EXCEPT ![r] = Respond(Logged(@, "Project.findByIdAndDelete", ""), 200, <<>>)]
  /\ UNCHANGED <<members, nextUser, nextProject, started, history>>

(* ---------------------------- specifications --------------------------- *)

(* A Member an earlier POST /members left in the store. *)
SeedMember ==
  NewMember([name |-> "n1", email |-> "e1", role |-> "admin", githubUsername |-> "g1"])

(* The handlers keep no state of their own: the store holds what earlier   *)
(* requests left in it, here nothing or one Member.                        *)
Start ==
  /\ \/ members = <<>> /\ nextUser = 1
     \/ members = Insert(<<>>, 1, SeedMember) /\ nextUser = 2
  /\ projects = <<>>
  /\ nextProject = 1
  /\ req = [r \in Slots |-> Idle]
  /\ started = 0
  /\ supplied = <<>>
  /\ created = {}

(* A denied request's body is never read: one body stands for all. *)
BodiesFor(role, B) == IF role = "admin" THEN B ELSE {<<>>}

(* Inputs are drawn once a request can arrive. *)
Next ==
  \E r \in Slots :
    \/ \E role \in Roles : ListMembers(r, role)
    \/ CanArrive(r) /\ \E role \in Roles : \E body \in BodiesFor(role, MemberInputs) :
         CreateMember(r, role, body)
    \/ CreateMemberSave(r)
    \/ \E role \in Roles, id \in UserIds : GetMember(r, role, id)
    \/ CanArrive(r) /\ \E role \in Roles, id \in UserIds :
         \E body \in BodiesFor(role, MemberInputs) : UpdateMember(r, role, id, body)
    \/ UpdateMemberFindOne(r)
    \/ UpdateMemberSave(r)
    \/ \E role \in Roles, id \in UserIds : DeleteMember(r, role, id)
    \/ DeleteMemberRemove(r)
    \/ \E role \in Roles : ListProjects(r, role)
    \/ ListProjectsPopulate(r)
    \/ CanArrive(r) /\ \E role \in Roles : \E body \in BodiesFor(role, ProjectInputs) :
         CreateProject(r, role, body)
    \/ CreateProjectSave(r)
    \/ CreateProjectPopulate(r)
    \/ \E role \in Roles, id \in ProjectIds : GetProject(r, role, id)
    \/ GetProjectPopulate(r)
    \/ CanArrive(r) /\ \E role \in Roles, id \in ProjectIds :
         \E body \in BodiesFor(role, ProjectInputs) : UpdateProject(r, role, id, body)
    \/ UpdateProjectVerify(r)
    \/ UpdateProjectSave(r)
    \/ UpdateProjectPopulate(r)
    \/ \E role \in Roles, id \in ProjectIds : DeleteProject(r, role, id)
    \/ DeleteProjectRemove(r)

(* Requests in flight together, their store steps interleaved. *)
Init == Start /\ serial = FALSE

Spec == Init /\ [][Next]_vars

(* One request at a time: a request arrives after the response to the last. *)
SeqInit == Start /\ serial = TRUE

SeqSpec == SeqInit /\ [][Next]_vars

(* ------------------------------ properties ----------------------------- *)

MemberFields == {"name", "email", "role", "githubUsername", "assignedProjects", "status"}

ProjectFields == {"projectName", "description", "githubRepo", "teamMembers", "status"}

WriteCalls == {"User.save", "User.findByIdAndDelete", "Project.save",
               "Project.findByIdAndDelete"}

DomainFailures == {400, 403, 404}

Calls(rq, fns) == {k \in DOMAIN rq.calls : rq.calls[k].fn \in fns}

(* Slot r takes a new request in this step. *)
Arrives(r) == started' # started /\ CanArrive(r)

(* Slot r's request answers in this step. *)
Answers(r) ==
  \/ req[r].pc \notin {"idle", "done"} /\ req'[r].pc = "done"
  \/ Arrives(r) /\ req'[r].pc = "done"

EmailUnique ==
  \A i \in DOMAIN members, j \in DOMAIN members : i # j => members[i].email # members[j].email

Ids(out) == [k \in DOMAIN out |-> out[k].id]

(* C1: a request whose role header is not "admin" (the absent header        *)
(* included) is answered 403 at once, for every operation, and has made no  *)
(* store call; the step that takes it leaves the store as it was; and 403   *)
(* is answered to no admin request.                                         *)
C1_Denied ==
  \A r \in Slots :
    /\ (req[r].op # "idle" /\ req[r].role # "admin") =>
         (req[r].pc = "done" /\ req[r].status = 403 /\ req[r].calls = <<>>)
    /\ req[r].status = 403 => req[r].role # "admin"

C1_DeniedStep == \A r \in Slots : (Arrives(r) /\ req'[r].role # "admin") => store' = store

(* C1: a request without the admin role is denied before any store call. *)
C1_Guard == []C1_Denied /\ [][C1_DeniedStep]_vars

C1_Witness ==
  \E r \in Slots : req[r].op = "updateProject" /\ req[r].role = "undefined" /\ req[r].status = 403

(* C2: no two stored Members have the same email, in every reachable state, *)
(* requests in flight together included.                                    *)
C2_EmailUniqueAlways == EmailUnique

(* The teamMembers a project save writes: all of a new Project's, and an    *)
(* updated Project's when the handler changed them.                         *)
TeamWritten(rq) ==
  IF rq.op = "createProject" \/ rq.doc.teamMembers # rq.orig.teamMembers
  THEN rq.doc.teamMembers
  ELSE <<>>

ProjectWrite(r) ==
  /\ req[r].op \in {"createProject", "updateProject"}
  /\ req[r].pc = "save"
  /\ projects' # projects

(* C3 as claimed: at the save step of createProject or updateProject every  *)
(* id in the teamMembers being saved is the id of a stored Member.          *)
C3_ExistsAtSave ==
  [][\A r \in Slots :
       ProjectWrite(r) => \A i \in Range(TeamWritten(req[r])) : i \in DOMAIN members]_vars

(* C3 amended: every id in the teamMembers being saved was the id of a      *)
(* stored Member at the handler's existence check (validMembers), and at    *)
(* the check step itself the ids that pass are stored Members.              *)
C3_ExistedAtCheck ==
  [][\A r \in Slots :
       /\ ProjectWrite(r) => \A i \in Range(TeamWritten(req[r])) : i \in req[r].valid
       /\ (req'[r].op \in {"createProject", "updateProject"} /\ req'[r].pc = "save"
             /\ req[r].pc # "save" /\ TeamGiven(req'[r].body)) =>
            /\ req'[r].valid = Range(req'[r].body.teamMembers)
            /\ req'[r].valid \subseteq DOMAIN members]_vars

C3_Witness ==
  \E r \in Slots :
    /\ Running(r, "createProject", "populate")
    /\ \E i \in req[r].valid : i \in Range(projects[req[r].id].teamMembers) /\ i \notin DOMAIN members

(* C4: an admin createProject with projectName and githubRepo present and  *)
(* a non-empty teamMembers list answers 400 exactly when some listed id is  *)
(* not the id of a stored Member, and is otherwise taken on to be saved.    *)
C4_BadRequestIffUnknown ==
  [][\A r \in Slots :
       (Arrives(r) /\ req'[r].op = "createProject" /\ req'[r].role = "admin"
          /\ ~RequiredMissing(req'[r].body) /\ TeamGiven(req'[r].body)) =>
         /\ (req'[r].status = 400) <=>
              (\E i \in Range(req'[r].body.teamMembers) : i \notin DOMAIN members)
         /\ req'[r].status # 400 => req'[r].pc = "save"]_vars

(* C5: the step in which a request answers 400, 403 or 404 leaves Members   *)
(* and Projects as they were, that request has made no writing store call,  *)
(* and update and delete of an id that is not stored answer 404.            *)
C5_FailureStep ==
  \A r \in Slots :
    /\ (Answers(r) /\ req'[r].status \in DomainFailures) =>
         /\ members' = members
         /\ projects' = projects
         /\ Calls(req'[r], WriteCalls) = {}
    /\ (Arrives(r) /\ req'[r].role = "admin"
          /\ req'[r].op \in {"updateMember", "deleteMember"}
          /\ req'[r].id \notin DOMAIN members) => req'[r].status = 404
    /\ (Arrives(r) /\ req'[r].role = "admin"
          /\ req'[r].op \in {"updateProject", "deleteProject"}
          /\ req'[r].id \notin DOMAIN projects) => req'[r].status = 404

(* C5: a request that answers 400, 403 or 404 has mutated nothing. *)
C5_FailureBeforeMutation == [][C5_FailureStep]_vars

C5_Witness ==
  \E r \in Slots :
    /\ req[r].op = "updateProject" /\ req[r].status = 400
    /\ Calls(req[r], {"User.find"}) # {}

(* The save step of an updateMember request that succeeds. *)
MemberSaved(r) == Running(r, "updateMember", "save") /\ req'[r].status = 200

OthersUnchanged(r) ==
  /\ DOMAIN members' = DOMAIN members
  /\ \A i \in DOMAIN members : i # req[r].id => members'[i] = members[i]

(* An updateMember request that supplies only status never fails once the  *)
(* Member is found. *)
OnlyStatus(rq) == rq.op = "updateMember" /\ rq.role = "admin" /\ DOMAIN rq.body = {"status"}

StatusOnlySucceeds(r) ==
  /\ (Arrives(r) /\ OnlyStatus(req'[r]) /\ req'[r].id \in DOMAIN members) => req'[r].pc # "done"
  /\ (OnlyStatus(req[r]) /\ req[r].pc \notin {"idle", "done"} /\ req'[r].pc = "done") =>
       req'[r].status = 200

C7_ConflictStep ==
  \A r \in Slots :
    (req'[r].op = "updateMember" /\ Answers(r) /\ req'[r].status \in {200, 400}) =>
      ((req'[r].status = 400) <=>
         /\ Has(req'[r].body, "email")
         /\ \E i \in DOMAIN members : members[i].email = req'[r].body.email
         /\ req'[r].id \in DOMAIN members => members[req'[r].id].email # req'[r].body.email)

C7_NoUnsuppliedKey ==
  \A r \in Slots :
    req[r].op = "updateMember" =>
      \A k \in DOMAIN req[r].calls :
        req[r].calls[k].fn = "User.findOne" => req[r].calls[k].arg # "undefined"

(* C7: Conflict exactly for a supplied, changed, taken email, and no       *)
(* uniqueness lookup keyed by an unsupplied email.                          *)
C7_ConflictExactly == []C7_NoUnsuppliedKey /\ [][C7_ConflictStep]_vars

(* C8: with one request at a time emails stay unique; a createMember with  *)
(* a name and an email no stored Member has stores one Member with the      *)
(* request's fields and answers 200; a createMember whose email a stored    *)
(* Member has answers 400 and leaves every Member as it was.                *)
C8_CreateStep ==
  \A r \in Slots :
    /\ (Arrives(r) /\ req'[r].op = "createMember" /\ req'[r].role = "admin") =>
         IF \E i \in DOMAIN members : Has(req'[r].body, "email")
                                        /\ members[i].email = req'[r].body.email
         THEN req'[r].status = 400 /\ members' = members
         ELSE req'[r].pc = "save"
    /\ (Running(r, "createMember", "save") /\ Truthy(req[r].body, "name")
          /\ Truthy(req[r].body, "email")) =>
         /\ req'[r].status = 200
         /\ DOMAIN members' = DOMAIN members \cup {req'[r].id}
         /\ req'[r].id \notin DOMAIN members
         /\ \A i \in DOMAIN members : members'[i] = members[i]
         /\ members'[req'[r].id].name = req[r].body.name
         /\ members'[req'[r].id].email = req[r].body.email

(* C8: of two createMember requests with one email the second answers 400  *)
(* and one Member holds the email.                                          *)
C8_SecondCreateConflicts == []EmailUnique /\ [][C8_CreateStep]_vars

C8_Witness ==
  \E r \in Slots :
    /\ req[r].op = "createMember" /\ req[r].status = 400
    /\ \E i \in created :
         /\ i \in DOMAIN members
         /\ members[i].email = req[r].body.email
         /\ \A j \in DOMAIN members : members[j].email = req[r].body.email => j = i

(* C9 as claimed: a getProject that succeeds on a Project that still holds *)
(* the teamMembers it was created with returns one summary per supplied id, *)
(* whatever requests ran since the create.                                  *)
C9_RoundTripAlways ==
  \A r \in Slots :
    (req[r].op = "getProject" /\ req[r].status = 200 /\ req[r].id \in DOMAIN projects
       /\ projects[req[r].id].teamMembers = supplied[req[r].id]) =>
      Ids(req[r].out) = supplied[req[r].id]

(* The teamMembers a getProject request read from the store. *)
TeamRead(r) ==
  IF req[r].pc = "populate" THEN req[r].doc.teamMembers ELSE projects[req'[r].id].teamMembers

IsStored(i) == i \in DOMAIN members

(* C9 amended: createProject stores the supplied ids, and a getProject     *)
(* that succeeds returns, in order, the summary of every id of the          *)
(* Project's teamMembers whose Member is stored when the ids are resolved:  *)
(* exactly the supplied ids when the Project was not updated and none of    *)
(* their Members was deleted, and without the ids of deleted Members.       *)
C9_ResolvedStep ==
  \A r \in Slots :
    /\ (Running(r, "createProject", "save") /\ projects' # projects) =>
         /\ Has(req[r].body, "teamMembers") =>
              projects'[req'[r].id].teamMembers = req[r].body.teamMembers
         /\ supplied'[req'[r].id] = projects'[req'[r].id].teamMembers
    /\ (req'[r].op = "getProject" /\ Answers(r) /\ req'[r].status = 200) =>
         /\ Ids(req'[r].out) = SelectSeq(TeamRead(r), IsStored)
         /\ \A k \in DOMAIN req'[r].out :
              LET m == members[req'[r].out[k].id]
              IN /\ req'[r].out[k].name = m.name
                 /\ req'[r].out[k].email = m.email
                 /\ req'[r].out[k].githubUsername = m.githubUsername

(* C9 amended: getProject returns the summaries of the stored ids whose    *)
(* Member exists when they are resolved.                                    *)
C9_RoundTripStored == [][C9_ResolvedStep]_vars

C9_Witness ==
  \E r \in Slots :
    /\ req[r].op = "getProject" /\ req[r].status = 200
    /\ req[r].id \in DOMAIN projects
    /\ projects[req[r].id].teamMembers = supplied[req[r].id]
    /\ Len(req[r].out) < Len(supplied[req[r].id])

(* The save step of an updateProject request that succeeds. *)
ProjectSaved(r) == Running(r, "updateProject", "save") /\ projects' # projects

(* C10: in updateMember an empty name, email, role or status keeps the     *)
(* stored value and a present githubUsername or assignedProjects overwrites *)
(* it, empty or not; in updateProject an empty projectName, githubRepo or   *)
(* status keeps the stored value, a present description or teamMembers      *)
(* overwrites it, empty or not, and an empty teamMembers makes no           *)
(* member-existence query.                                                  *)
C10_PresenceStep ==
  \A r \in Slots :
    /\ MemberSaved(r) =>
         /\ \A f \in {"name", "email", "role", "status"} :
              members'[req[r].id][f] =
                IF Truthy(req[r].body, f) THEN req[r].body[f] ELSE members[req[r].id][f]
         /\ \A f \in {"githubUsername", "assignedProjects"} :
              members'[req[r].id][f] =
                IF Has(req[r].body, f) THEN req[r].body[f] ELSE members[req[r].id][f]
    /\ ProjectSaved(r) =>
         /\ \A f \in {"projectName", "githubRepo", "status"} :
              projects'[req[r].id][f] =
                IF Truthy(req[r].body, f) THEN req[r].body[f] ELSE projects[req[r].id][f]
         /\ \A f \in {"description", "teamMembers"} :
              projects'[req[r].id][f] =
                IF Has(req[r].body, f) THEN req[r].body[f] ELSE projects[req[r].id][f]
    /\ (Running(r, "updateProject", "save") /\ Has(req[r].body, "teamMembers")
          /\ req[r].body.teamMembers = <<>>) =>
         Calls(req[r], {"User.find"}) = {}

(* C10: truthiness decides some update fields and presence the others.    *)
C10_Asymmetry == [][C10_PresenceStep]_vars

C10_Witness ==
  \E r \in Slots :
    /\ Running(r, "updateProject", "save")
    /\ req[r].body = [description |-> "", projectName |-> ""]
    /\ req[r].orig.description = "d1"
    /\ req[r].doc.description = ""
    /\ req[r].doc.projectName = req[r].orig.projectName
====
